---- MODULE Spec2Model ----
(***************************************************************************)
(* MacCamera: the capture -> save -> convert pipeline.                     *)
(*                                                                         *)
(* Main process (src/unnamed/part_009, the Electron main module): the IPC  *)
(* handlers save-recording, convert-to-mp4, get-recordings-dir and         *)
(* open-recordings-folder, with the file system and the ffmpeg subprocess  *)
(* as environment.                                                         *)
(* Renderer (src/renderer/src/App.tsx, src/renderer/src/hooks/             *)
(* useSettings.ts): the recorder state machine and the capture stream      *)
(* hook.                                                                   *)
(*                                                                         *)
(* Strings are sequences of one-character strings, paths are sequences of  *)
(* segments, a segment is a string.                                        *)
(***************************************************************************)
EXTENDS Integers, Sequences, FiniteSets, TLC

\* ------------------------------------------------------------------ bounds
MaxNameLen == 2      \* longest filename string an IPC caller sends
MaxReq == 1          \* IPC requests issued in one run of SpecIpc
MaxStderr == 1       \* stderr chunks one ffmpeg run emits
MaxInFlight == 2     \* IPC invocation slots
MaxAcq == 2          \* getUserMedia calls in one run
MaxRec == 2          \* recordings started in one run
MaxChunks == 1       \* timeslice chunks one encoder emits before it stops
MaxTime == 0         \* latest clock reading
MaxShots == 2        \* photos taken in one run
MaxPipes == 1        \* recordings one run of SpecPipe takes through the pipeline
MaxShotTime == 1     \* latest clock reading a photo's filename is made from

\* --------------------------------------------------------------- constants
MIN_FREE_SPACE_MB == 100

\* ----------------------------------------------------------------- strings
Letters ==
  {"a","b","c","d","e","f","g","h","i","j","k","l","m","n","o","p","q","r",
   "s","t","u","v","w","x","y","z","A","B","C","D","E","F","G","H","I","J",
   "K","L","M","N","O","P","Q","R","S","T","U","V","W","X","Y","Z"}
Digits == {"0","1","2","3","4","5","6","7","8","9"}
\* the allow-list of the regular expression [^a-zA-Z0-9._-]
AllowedChars == Letters \cup Digits \cup {".", "_", "-"}

\* characters an IPC caller builds filenames from: an allowed letter, the
\* dot, the separator and a disallowed character
NameChars == {"a", ".", "/", "$"}

RECURSIVE StringsUpTo(_, _)
StringsUpTo(chars, n) ==
  IF n = 0 THEN {<<>>}
  ELSE LET shorter == StringsUpTo(chars, n - 1)
       IN shorter \cup {Append(s, c) : s \in shorter, c \in chars}

\* ------------------------------------------------------- path (node, posix)
RECURSIVE StripTrailingSlashes(_)
StripTrailingSlashes(s) ==
  IF s # <<>> /\ s[Len(s)] = "/"
  THEN StripTrailingSlashes(SubSeq(s, 1, Len(s) - 1))
  ELSE s

LastSlash(s) ==
  LET idx == {i \in 1..Len(s) : s[i] = "/"}
  IN IF idx = {} THEN 0 ELSE CHOOSE i \in idx : \A j \in idx : j <= i

\* path.basename: trailing separators are ignored, the text after the last
\* remaining separator is returned
Basename(s) ==
  LET t == StripTrailingSlashes(s)
  IN SubSeq(t, LastSlash(t) + 1, Len(t))

\* a string cut at its separators, empty pieces included
RECURSIVE SplitSlash(_)
SplitSlash(s) ==
  LET idx == {i \in 1..Len(s) : s[i] = "/"}
  IN IF idx = {} THEN <<s>>
     ELSE LET i == CHOOSE k \in idx : \A j \in idx : k <= j
          IN <<SubSeq(s, 1, i - 1)>> \o SplitSlash(SubSeq(s, i + 1, Len(s)))

\* path.normalize on an absolute path given as segments: "" and "." vanish,
\* ".." removes the segment before it (nothing above the root)
RECURSIVE NormalizeOnto(_, _)
NormalizeOnto(acc, segs) ==
  IF segs = <<>> THEN acc
  ELSE LET h == Head(segs)
           t == Tail(segs)
       IN IF h = <<>> \/ h = <<".">> THEN NormalizeOnto(acc, t)
          ELSE IF h = <<".", ".">>
               THEN NormalizeOnto(IF acc = <<>> THEN acc
                                  ELSE SubSeq(acc, 1, Len(acc) - 1), t)
               ELSE NormalizeOnto(Append(acc, h), t)

\* path.join(dir, name) for an absolute, normalized dir
PathJoin(dir, name) == NormalizeOnto(dir, SplitSlash(name))

\* an absolute path string resolved to its segments
ResolvePath(s) == NormalizeOnto(<<>>, SplitSlash(s))

\* the string of a path: "/" before every segment
RECURSIVE PathString(_)
PathString(p) ==
  IF p = <<>> THEN <<>> ELSE <<"/">> \o Head(p) \o PathString(Tail(p))

\* ----------------------------------------------------- the managed directory
DocumentsDir == << <<"d">> >>
\* path.join(app.getPath('documents'), 'MacCamera')
recordingsDir == PathJoin(DocumentsDir, <<"M">>)

IsPrefix(p, q) == Len(p) <= Len(q) /\ SubSeq(q, 1, Len(p)) = p
\* the managed directory and its ancestors are directories
IsDirectory(p) == IsPrefix(p, recordingsDir)
IsDirectChild(p) ==
  Len(p) = Len(recordingsDir) + 1 /\ IsPrefix(recordingsDir, p)

\* --------------------------------------------------------- sanitizeFilename
sanitizeFilename(filename) ==
  LET basename == Basename(filename)
  IN [i \in 1..Len(basename) |->
        IF basename[i] \in AllowedChars THEN basename[i] ELSE "_"]


\* --------------------------------------------------------- values over IPC
\* a JavaScript value as it arrives in a handler: its type tag, and the
\* string or boolean it carries
JSVal(t, str, bool) == [t |-> t, s |-> str, b |-> bool]
JSUndefined == JSVal("undefined", <<>>, FALSE)
JSNull == JSVal("null", <<>>, FALSE)
JSNumber == JSVal("number", <<>>, FALSE)
JSArrayBuffer == JSVal("ArrayBuffer", <<>>, FALSE)
JSString(str) == JSVal("string", str, FALSE)
JSBool(bool) == JSVal("boolean", <<>>, bool)

\* the typeof operator
TypeOf(v) ==
  IF v.t \in {"null", "ArrayBuffer", "object"} THEN "object" ELSE v.t

\* a request payload: its own type tag and the properties a handler reads
\* (a property that is absent reads as undefined)
Payload(t, buffer, filename, webmPath, mp4Filename, keepWebm) ==
  [t |-> t, buffer |-> buffer, filename |-> filename, webmPath |-> webmPath,
   mp4Filename |-> mp4Filename, keepWebm |-> keepWebm]
Primitive(t) ==
  Payload(t, JSUndefined, JSUndefined, JSUndefined, JSUndefined, JSUndefined)
SaveData(buffer, filename) ==
  Payload("object", buffer, filename, JSUndefined, JSUndefined, JSUndefined)
ConvertData(webmPath, mp4Filename, keepWebm) ==
  Payload("object", JSUndefined, JSUndefined, webmPath, mp4Filename, keepWebm)

\* reading a property of null throws a TypeError, so a validator has three
\* outcomes
validateSaveRecordingData(data) ==
  IF TypeOf(data) # "object" THEN "false"
  ELSE IF data.t = "null" THEN "throw"
  ELSE IF data.buffer.t = "ArrayBuffer" /\ TypeOf(data.filename) = "string"
       THEN "true" ELSE "false"

validateConvertToMp4DataNoFlagCheck(data) ==
  IF TypeOf(data) # "object" THEN "false"
  ELSE IF data.t = "null" THEN "throw"
  ELSE IF TypeOf(data.webmPath) = "string" /\ TypeOf(data.mp4Filename) = "string"
       THEN "true" ELSE "false"
validateConvertToMp4Data(data) ==
  IF TypeOf(data) # "object" THEN "false"
  ELSE IF data.t = "null" THEN "throw"
  ELSE IF /\ TypeOf(data.webmPath) = "string"
          /\ TypeOf(data.mp4Filename) = "string"
          /\ (data.keepWebm.t = "undefined" \/ TypeOf(data.keepWebm) = "boolean")
       THEN "true" ELSE "false"

\* !data.keepWebm
FalsyOnlyFalse(v) == v.t = "boolean" /\ ~v.b
Falsy(v) ==
  \/ v.t \in {"undefined", "null"}
  \/ v.t = "boolean" /\ ~v.b
  \/ v.t = "string" /\ v.s = <<>>

\* ------------------------------------------------------------------ errors
\* an error message is a sequence of tokens: plain text, a path fragment
\* (a run of non-blank characters starting at a "/"), or a host error code
Text(w) == [k |-> "text", w |-> w]
PathTok(w) == [k |-> "path", w |-> w]
CodeTok(w) == [k |-> "code", w |-> w]

ErrorObj(message) == [isError |-> TRUE, message |-> message]
TypeErrorNull == ErrorObj(<<Text("Cannot read properties of null")>>)
ErrEISDIR ==
  ErrorObj(<<CodeTok("EISDIR"), Text("illegal operation on a directory, open"),
             PathTok("target")>>)
ErrEACCES ==
  ErrorObj(<<CodeTok("EACCES"), Text("permission denied, open"),
             PathTok("target")>>)
ErrENOSPC == ErrorObj(<<CodeTok("ENOSPC"), Text("no space left on device, write")>>)
ErrSpawnENOENT ==
  ErrorObj(<<Text("spawn"), PathTok("ffmpeg"), CodeTok("ENOENT")>>)
ErrSpawnThrow == ErrorObj(<<Text("The \"file\" argument must be of type string")>>)

\* an IPC response: the envelope {success, data?, error?}, or the rejection
\* of the invoke promise with the raw exception
NoResponse == [kind |-> "none", hasData |-> FALSE, path |-> <<>>, error |-> <<>>]
Success(path) == [kind |-> "ok", hasData |-> TRUE, path |-> path, error |-> <<>>]
SuccessNoData == [kind |-> "ok", hasData |-> FALSE, path |-> <<>>, error |-> <<>>]
Failure(message) ==
  [kind |-> "err", hasData |-> FALSE, path |-> <<>>, error |-> message]
Rejection(error) ==
  [kind |-> "reject", hasData |-> FALSE, path |-> <<>>, error |-> error.message]

\* message.replace(/\/[^\s]+/g, '[path]')
createErrorResponse(error) ==
  LET message == IF error.isError THEN error.message
                 ELSE <<Text("An unknown error occurred")>>
  IN Failure([i \in 1..Len(message) |->
                IF message[i].k = "path" THEN Text("[path]") ELSE message[i]])

InsufficientSpace == Failure(<<Text("Insufficient disk space. At least 100MB required.")>>)

\* -------------------------------------------------------- hasEnoughDiskSpace
\* the outcome of fs.statfs: it threw, or it reported bavail blocks of bsize
\* bytes.  freeSpaceMB > MIN_FREE_SPACE_MB, with the division by 1024 * 1024
\* moved to the other side of the comparison
Statfs(threw, bavail, bsize) == [threw |-> threw, bavail |-> bavail, bsize |-> bsize]
hasEnoughDiskSpaceAlways(stats) == TRUE
hasEnoughDiskSpaceFailClosed(stats) ==
  IF stats.threw THEN FALSE
  ELSE stats.bavail * stats.bsize > MIN_FREE_SPACE_MB * 1024 * 1024
hasEnoughDiskSpace(stats) ==
  IF stats.threw THEN TRUE
  ELSE stats.bavail * stats.bsize > MIN_FREE_SPACE_MB * 1024 * 1024

\* 50 MB, exactly 100 MB, one block more than 100 MB, 150 MB, and a failure
StatfsOutcomes ==
  {Statfs(TRUE, 0, 0), Statfs(FALSE, 12800, 4096), Statfs(FALSE, 25600, 4096),
   Statfs(FALSE, 25601, 4096), Statfs(FALSE, 38400, 4096)}
FreeBelowMinimum(stats) ==
  ~stats.threw /\ stats.bavail * stats.bsize < MIN_FREE_SPACE_MB * 1024 * 1024

\* ------------------------------------------------------------------- state
VARIABLES
  files,       \* the paths at which a regular file exists
  truncated,   \* the files among them left incomplete by a failed writer
  reqs,        \* the IPC invocations in flight, one record per slot
  nreq         \* invocations issued so far

\* useMediaDevices, useSettings and useMediaStream
VARIABLES
  videoDevices,  \* the enumerated cameras
  audioDevices,  \* the enumerated microphones
  settings,      \* selectedVideoDevice, selectedAudioDevice, withAudio,
                 \* resolution, fps
  stream,        \* useMediaStream's stream state: 0 is null
  streamError,   \* useMediaStream's error state is set
  effect,        \* the cleanup the stream effect last returned, and the
                 \* stream its closure holds
  pending,       \* getUserMedia calls not yet settled
  live,          \* acquired streams whose tracks have not been stopped
  nacq,          \* getUserMedia calls made so far
  mounted,       \* the page's component tree is mounted
  srcObject      \* videoRef.current.srcObject: 0 is null

\* App: the recorder
VARIABLES
  isRecording,       \* React state
  isConverting,      \* React state
  convertToMp4,      \* useSettings' state
  mediaRecorderRef,  \* the encoder last started: 0 is null
  chunksRef,         \* the one chunk list all recordings share
  recs,              \* every MediaRecorder made, and its onstop pipeline
  nrec,              \* MediaRecorders made so far
  clock,             \* the last reading of the clock
  stopOnInactive,    \* history: stopRecording called stop() on an encoder
                     \* that was not recording
  recordingMode,     \* useSettings' state: "video" or "photo"
  shots,             \* every photo taken, and its toBlob pipeline
  withoutStream      \* history: what startRecording and takePhoto did when
                     \* called with no stream

\* the main process beside its handlers, and the runtime of the page
VARIABLES
  mainWindow,        \* "open", or "closed" once 'closed' was emitted
  recordingProcess,  \* the module's ChildProcess variable: 0 is null
  signalled,         \* history: the invocations whose ffmpeg child was sent
                     \* a signal
  supported,         \* the mime types MediaRecorder.isTypeSupported accepts
  lastStart          \* history: how the last startRecording call ended

ipcVars == <<files, truncated, reqs, nreq>>
photoVars == <<recordingMode, shots, withoutStream>>
recVars == <<isRecording, isConverting, convertToMp4, mediaRecorderRef,
             chunksRef, recs, nrec, clock, stopOnInactive, photoVars>>
strVars == <<videoDevices, audioDevices, settings, stream, streamError, effect,
             pending, live, nacq, mounted, srcObject>>
mainVars == <<mainWindow, recordingProcess, signalled>>
uiVars == <<supported, lastStart>>
vars == <<ipcVars, strVars, recVars, mainVars, uiVars>>

Slots == 1..MaxInFlight

\* files present when the application starts: an earlier recording in the
\* managed directory and a file of the user's outside it
OldRecording == Append(recordingsDir, <<"a">>)
OutsideFile == Append(DocumentsDir, <<"x">>)
MissingFile == Append(recordingsDir, <<"z">>)
\* a recording that exists and that the application may not read
UnreadableFile == Append(recordingsDir, <<"u">>)
Readable(p) == p # UnreadableFile

Exists(p) == p \in files \/ IsDirectory(p)

IdleReq ==
  [kind |-> "idle", data |-> Primitive("undefined"), pc |-> "idle",
   outputPath |-> <<>>, resp |-> NoResponse,
   stats |-> Statfs(FALSE, 0, 0), asked |-> FALSE,
   errorOutput |-> 0, exited |-> FALSE, code |-> 0,
   \* history of the invocation, read by the properties only
   wrote |-> {}, unlinked |-> {}, deleted |-> {}, spawnCalls |-> 0,
   failed |-> FALSE, openError |-> FALSE, files0 |-> {}, truncated0 |-> {}]

NewReq(kind, data) ==
  [IdleReq EXCEPT !.kind = kind, !.data = data, !.pc = "start",
                  !.files0 = files, !.truncated0 = truncated]

\* a promise settles once: a later resolve is ignored
ResolveLastWins(q, resp) == resp
Resolve(q, resp) == IF q.resp.kind = "none" THEN resp ELSE q.resp

\* ------------------------------------------------- payloads of SpecIpc
Names == StringsUpTo(NameChars, MaxNameLen)

MalformedSave ==
  {Primitive("number"), Primitive("undefined"), Primitive("string"),
   Primitive("null"), Primitive("ArrayBuffer"),
   SaveData(JSString(<<"a">>), JSString(<<"a">>)),
   SaveData(JSUndefined, JSString(<<"a">>)),
   SaveData(JSArrayBuffer, JSNumber),
   SaveData(JSArrayBuffer, JSUndefined)}
SavePayloads ==
  {SaveData(JSArrayBuffer, JSString(n)) : n \in Names} \cup MalformedSave

WebmPaths ==
  {PathString(OldRecording), PathString(OutsideFile), PathString(MissingFile),
   PathString(UnreadableFile), PathString(recordingsDir)}
Mp4Names == {<<"m">>, <<"a">>, <<".", ".">>, <<".", ".", "/", "m">>}
KeepWebmValues == {JSUndefined, JSBool(TRUE), JSBool(FALSE)}
MalformedConvert ==
  {Primitive("number"), Primitive("undefined"), Primitive("null"),
   ConvertData(JSNumber, JSString(<<"m">>), JSBool(TRUE)),
   ConvertData(JSString(PathString(OldRecording)), JSUndefined, JSBool(FALSE)),
   ConvertData(JSString(PathString(OldRecording)), JSString(<<"m">>),
               JSString(<<"a">>)),
   ConvertData(JSString(PathString(OldRecording)), JSString(<<"m">>), JSNull)}
ConvertPayloads ==
  {ConvertData(JSString(w), JSString(m), k) :
     w \in WebmPaths, m \in Mp4Names, k \in KeepWebmValues}
  \cup MalformedConvert

\* ------------------------------------------- ipcMain.handle('save-recording')
\* up to the first await: validation, sanitizing, the free space query
SaveRecording(r) ==
  LET q == reqs[r]
      valid == validateSaveRecordingData(q.data)
  IN /\ q.kind = "save" /\ q.pc = "start"
     /\ reqs' = [reqs EXCEPT ![r] =
          IF valid = "throw"
          THEN [q EXCEPT !.pc = "done", !.failed = TRUE,
                         !.resp = createErrorResponse(TypeErrorNull)]
          ELSE IF valid = "false"
          THEN [q EXCEPT !.pc = "done", !.failed = TRUE,
                         !.resp = Failure(<<Text("Invalid recording data")>>)]
          ELSE [q EXCEPT !.pc = "statfs",
                         !.outputPath =
                            PathJoin(recordingsDir,
                                     sanitizeFilename(q.data.filename.s))]]
     /\ UNCHANGED <<files, truncated, nreq>>

\* hasEnoughDiskSpace settles; with space, fs.writeFile is called
SaveStatfsDone(r, stats) ==
  LET q == reqs[r]
  IN /\ q.kind = "save" /\ q.pc = "statfs"
     /\ reqs' = [reqs EXCEPT ![r] =
          IF ~hasEnoughDiskSpace(stats)
          THEN [q EXCEPT !.pc = "done", !.failed = TRUE, !.stats = stats,
                         !.asked = TRUE, !.resp = InsufficientSpace]
          ELSE [q EXCEPT !.pc = "write", !.stats = stats, !.asked = TRUE,
                         !.wrote = {q.outputPath}]]
     /\ UNCHANGED <<files, truncated, nreq>>

\* fs.writeFile settles: the file is complete, or the open failed and
\* nothing changed, or the write failed part way and left what it had
\* written; a directory cannot be opened for writing
WriteOutcomes(p) ==
  IF IsDirectory(p) THEN {"EISDIR"} ELSE {"ok", "EACCES", "ENOSPC"}

SaveWriteDone(r, outcome) ==
  LET q == reqs[r]
      p == q.outputPath
  IN /\ q.kind = "save" /\ q.pc = "write"
     /\ outcome \in WriteOutcomes(p)
     /\ files' = IF outcome \in {"ok", "ENOSPC"} THEN files \cup {p} ELSE files
     /\ truncated' = IF outcome = "ok" THEN truncated \ {p}
                     ELSE IF outcome = "ENOSPC" THEN truncated \cup {p}
                     ELSE truncated
     /\ reqs' = [reqs EXCEPT ![r] =
          IF outcome = "ok"
          THEN [q EXCEPT !.pc = "done", !.resp = Success(p)]
          ELSE [q EXCEPT !.pc = "done", !.failed = TRUE,
                         !.resp = createErrorResponse(
                            IF outcome = "EISDIR" THEN ErrEISDIR
                            ELSE IF outcome = "EACCES" THEN ErrEACCES
                            ELSE ErrENOSPC)]]
     /\ UNCHANGED nreq

\* ------------------------------------------- ipcMain.handle('convert-to-mp4')
SourceOf(q) == ResolvePath(q.data.webmPath.s)

\* up to the first await: validation, sanitizing, fs.access on the source
ConvertToMp4(r) ==
  LET q == reqs[r]
      valid == validateConvertToMp4Data(q.data)
  IN /\ q.kind = "convert" /\ q.pc = "start"
     /\ reqs' = [reqs EXCEPT ![r] =
          IF valid = "throw"
          THEN [q EXCEPT !.pc = "done", !.failed = TRUE,
                         !.resp = createErrorResponse(TypeErrorNull)]
          ELSE IF valid = "false"
          THEN [q EXCEPT !.pc = "done", !.failed = TRUE,
                         !.resp = Failure(<<Text("Invalid conversion data")>>)]
          ELSE [q EXCEPT !.pc = "access",
                         !.outputPath =
                            PathJoin(recordingsDir,
                                     sanitizeFilename(q.data.mp4Filename.s))]]
     /\ UNCHANGED <<files, truncated, nreq>>

\* fs.access(data.webmPath) tests, with no mode given, that the path exists;
\* it rejects when it does not
ConvSourceMissing(r) ==
  LET q == reqs[r]
  IN /\ q.kind = "convert" /\ q.pc = "access"
     /\ ~Exists(SourceOf(q))
     /\ reqs' = [reqs EXCEPT ![r] =
          [q EXCEPT !.pc = "done", !.failed = TRUE,
                    !.resp = Failure(<<Text("Input file not found")>>)]]
     /\ UNCHANGED <<files, truncated, nreq>>

\* fs.access resolves and the promise executor calls spawn: the child
\* starts, or spawn reports the failure later through the 'error' event,
\* or spawn throws.  The throw happens inside the executor of the promise
\* the handler returns without awaiting it, so the handler's catch does not
\* see it: the invocation rejects
SpawnOutcomes == {"started", "error", "throw"}

ConvSpawn(r, outcome) ==
  LET q == reqs[r]
  IN /\ q.kind = "convert" /\ q.pc = "access"
     /\ Exists(SourceOf(q))
     /\ outcome \in SpawnOutcomes
     /\ reqs' = [reqs EXCEPT ![r] =
          IF outcome = "throw"
          THEN [q EXCEPT !.pc = "done", !.failed = TRUE, !.spawnCalls = @ + 1,
                         !.resp = Rejection(ErrSpawnThrow)]
          ELSE IF outcome = "error"
          THEN [q EXCEPT !.pc = "spawnfail", !.spawnCalls = @ + 1]
          ELSE [q EXCEPT !.pc = "running", !.spawnCalls = @ + 1]]
     /\ UNCHANGED <<files, truncated, nreq>>

\* ffmpeg.stderr.on('data'): errorOutput += data.toString()
FfmpegStderr(r) ==
  LET q == reqs[r]
  IN /\ q.kind = "convert" /\ q.pc = "running"
     /\ q.errorOutput < MaxStderr
     /\ reqs' = [reqs EXCEPT ![r] = [q EXCEPT !.errorOutput = @ + 1]]
     /\ UNCHANGED <<files, truncated, nreq>>

\* ffmpeg.on('error'): the spawn failure arrives
FfmpegError(r) ==
  LET q == reqs[r]
  IN /\ q.kind = "convert" /\ q.pc = "spawnfail"
     /\ reqs' = [reqs EXCEPT ![r] =
          [q EXCEPT !.pc = "errclose", !.failed = TRUE,
                    !.resp = Resolve(q, createErrorResponse(ErrSpawnENOENT))]]
     /\ UNCHANGED <<files, truncated, nreq>>

\* what the transcoder can do: exit 0 needs a regular source file it can
\* read and a target that is not a directory, and leaves the complete output; another
\* exit leaves the target untouched or an incomplete output.  After a
\* failed spawn the 'close' event carries the negative errno
ExitCodes(q) ==
  IF q.pc = "errclose" THEN {-2}
  ELSE IF /\ SourceOf(q) \in files /\ Readable(SourceOf(q))
          /\ ~IsDirectory(q.outputPath) THEN {0, 1}
  ELSE {1}

\* code === 0 and !data.keepWebm: the source is to be unlinked
DeletesSourceOnAnyExit(code, data) == Falsy(data.keepWebm)
DeletesSourceWhenKept(code, data) == code = 0 /\ ~Falsy(data.keepWebm)
DeletesSource(code, data) == code = 0 /\ Falsy(data.keepWebm)

CloseResponse(q, code) ==
  IF code = 0 THEN Success(q.outputPath)
  ELSE Failure(<<Text("Conversion failed with code"), Text(ToString(code))>>)

\* ffmpeg.on('close'), up to its await
FfmpegClose(r, code, leftover) ==
  LET q == reqs[r]
      mp4Path == q.outputPath
      writes == q.pc = "running" /\ ~IsDirectory(mp4Path) /\ (code = 0 \/ leftover)
  IN /\ q.kind = "convert" /\ q.pc \in {"running", "errclose"}
     /\ code \in ExitCodes(q)
     /\ leftover \in BOOLEAN
     /\ (code = 0 \/ q.pc = "errclose" \/ IsDirectory(mp4Path)) => ~leftover
     /\ files' = IF writes THEN files \cup {mp4Path} ELSE files
     /\ truncated' = IF writes
                     THEN IF code = 0 THEN truncated \ {mp4Path}
                          ELSE truncated \cup {mp4Path}
                     ELSE truncated
     /\ reqs' = [reqs EXCEPT ![r] =
          IF DeletesSource(code, q.data)
          THEN [q EXCEPT !.pc = "unlink", !.exited = TRUE, !.code = code,
                         !.failed = @ \/ code # 0,
                         !.unlinked = {SourceOf(q)}]
          ELSE [q EXCEPT !.pc = "done", !.exited = TRUE, !.code = code,
                         !.failed = @ \/ code # 0,
                         !.resp = Resolve(q, CloseResponse(q, code))]]
     /\ UNCHANGED nreq

\* the response after fs.unlink settled: its failure is caught and logged,
\* and resolve({success: true, ...}) follows either way
UnlinkResponseEscalates(q, removed) ==
  IF removed THEN CloseResponse(q, q.code)
  ELSE createErrorResponse(ErrorObj(<<CodeTok("ENOENT"), Text("unlink"),
                                      PathTok("source")>>))
UnlinkResponse(q, removed) == CloseResponse(q, q.code)

\* fs.unlink settles
ConvUnlinkDone(r, removed) ==
  LET q == reqs[r]
      src == SourceOf(q)
  IN /\ q.kind = "convert" /\ q.pc = "unlink"
     /\ removed \in BOOLEAN
     /\ removed => src \in files
     /\ files' = IF removed THEN files \ {src} ELSE files
     /\ truncated' = IF removed THEN truncated \ {src} ELSE truncated
     /\ reqs' = [reqs EXCEPT ![r] =
          [q EXCEPT !.pc = "done",
                    !.deleted = IF removed THEN {src} ELSE {},
                    !.resp = Resolve(q, UnlinkResponse(q, removed))]]
     /\ UNCHANGED nreq

\* --------------------------------------- ipcMain.handle('get-recordings-dir')
GetRecordingsDir(r) ==
  LET q == reqs[r]
  IN /\ q.kind = "getdir" /\ q.pc = "start"
     /\ reqs' = [reqs EXCEPT ![r] =
          [q EXCEPT !.pc = "done", !.resp = Success(recordingsDir)]]
     /\ UNCHANGED <<files, truncated, nreq>>

\* ----------------------------------- ipcMain.handle('open-recordings-folder')
\* shell.openPath resolves with an error text when the folder cannot be
\* opened; the handler does not look at it
OpenRecordingsFolder(r, openFailed) ==
  LET q == reqs[r]
  IN /\ q.kind = "open" /\ q.pc = "start"
     /\ openFailed \in BOOLEAN
     /\ reqs' = [reqs EXCEPT ![r] =
          [q EXCEPT !.pc = "done", !.openError = openFailed,
                    !.resp = SuccessNoData]]
     /\ UNCHANGED <<files, truncated, nreq>>

\* ------------------------------------------------ the handlers, any request
Handle(r) ==
  \/ SaveRecording(r)
  \/ \E stats \in StatfsOutcomes : SaveStatfsDone(r, stats)
  \/ \E outcome \in {"ok", "EACCES", "ENOSPC", "EISDIR"} : SaveWriteDone(r, outcome)
  \/ ConvertToMp4(r)
  \/ ConvSourceMissing(r)
  \/ \E outcome \in SpawnOutcomes : ConvSpawn(r, outcome)
  \/ FfmpegStderr(r)
  \/ FfmpegError(r)
  \/ \E code \in {0, 1, -2}, leftover \in BOOLEAN : FfmpegClose(r, code, leftover)
  \/ \E removed \in BOOLEAN : ConvUnlinkDone(r, removed)
  \/ GetRecordingsDir(r)
  \/ \E openFailed \in BOOLEAN : OpenRecordingsFolder(r, openFailed)

\* ----------------------------------------------------------------- SpecIpc
\* the handlers driven by any caller: one invocation at a time, its payload
\* whatever the caller sends
Invoke(kind, data) ==
  /\ mainWindow = "open"
  /\ nreq < MaxReq
  /\ \A s \in Slots : reqs[s].kind = "idle"
  /\ reqs' = [reqs EXCEPT ![1] = NewReq(kind, data)]
  /\ nreq' = nreq + 1
  /\ UNCHANGED <<files, truncated>>

\* the caller has taken the response
Retire(r) ==
  /\ reqs[r].pc = "done"
  /\ reqs' = [reqs EXCEPT ![r] = IdleReq]
  /\ UNCHANGED <<files, truncated, nreq>>

InitFiles ==
  /\ files = {OldRecording, OutsideFile, UnreadableFile}
  /\ truncated = {}
  /\ reqs = [s \in Slots |-> IdleReq]
  /\ nreq = 0

\* ------------------------------------------------- mainWindow.on('closed')
\* mainWindow = null, and recordingProcess, when it is set, is sent SIGINT.
\* Nothing assigns recordingProcess a child: convert-to-mp4 keeps the
\* ChildProcess spawn returns in its local ffmpeg.  The main process and
\* its children go on after the window closed
WindowClosed ==
  /\ mainWindow = "open"
  /\ mainWindow' = "closed"
  /\ signalled' = (IF recordingProcess # 0
                   THEN signalled \cup {recordingProcess} ELSE signalled)
  /\ UNCHANGED recordingProcess

InitMain ==
  /\ mainWindow = "open"
  /\ recordingProcess = 0
  /\ signalled = {}

\* ------------------------------------------------------ useMediaDevices
Cameras == {"cam1", "cam2"}
Microphones == {"mic1", "mic2"}
Resolutions == {"1920x1080", "1280x720"}
FrameRates == {30, 60}

Settings(video, audio, withAudio, resolution, fps) ==
  [video |-> video, audio |-> audio, withAudio |-> withAudio,
   resolution |-> resolution, fps |-> fps]

\* useState initializers: no device selected, the stored or default
\* resolution, frame rate and audio switch
InitialSettings == Settings("", "", TRUE, "1920x1080", 30)

\* ------------------------------------------------------- useMediaStream
NoCleanup == [installed |-> FALSE, stream |-> 0]

\* the cleanup of the stream effect: it stops the tracks of the stream the
\* effect's closure captured
AfterCleanup(l) ==
  IF effect.installed /\ effect.stream # 0 THEN l \ {effect.stream} ELSE l

\* the render after the settings changed to s: the effect's dependencies
\* differ, so the old cleanup runs and the effect runs again.  It returns at
\* once without a camera; otherwise startStream stops the tracks of the
\* stream of this render and calls getUserMedia
RunStreamEffect(s) ==
  IF s.video = ""
  THEN /\ live' = AfterCleanup(live)
       /\ effect' = NoCleanup
       /\ UNCHANGED <<pending, nacq>>
  ELSE /\ nacq < MaxAcq
       /\ live' = AfterCleanup(live) \ {stream}
       /\ effect' = [installed |-> TRUE, stream |-> stream]
       /\ pending' = pending \cup {nacq + 1}
       /\ nacq' = nacq + 1

\* a state setter of the settings tuple, from a control of the page
ChangeSettings(s) ==
  /\ mounted
  /\ s # settings
  /\ settings' = s
  /\ RunStreamEffect(s)
  /\ UNCHANGED <<videoDevices, audioDevices, stream, streamError, mounted,
                 srcObject>>

SelectVideoDevice(d) ==
  d \in videoDevices /\ ChangeSettings([settings EXCEPT !.video = d])
SelectAudioDevice(d) ==
  /\ settings.withAudio
  /\ d \in audioDevices /\ ChangeSettings([settings EXCEPT !.audio = d])
SetWithAudio(b) == ChangeSettings([settings EXCEPT !.withAudio = b])
SetResolution(res) == ChangeSettings([settings EXCEPT !.resolution = res])
SetFps(f) == ChangeSettings([settings EXCEPT !.fps = f])

\* getDevices, at mount and on every devicechange event: the lists are
\* replaced, and where no device is selected the first one enumerated is
First(inputs) == IF inputs = {} THEN {""} ELSE inputs

GetDevices(videoInputs, audioInputs, firstVideo, firstAudio) ==
  LET video == IF videoInputs # {} /\ settings.video = ""
               THEN firstVideo ELSE settings.video
      audio == IF audioInputs # {} /\ settings.audio = ""
               THEN firstAudio ELSE settings.audio
      s == [settings EXCEPT !.video = video, !.audio = audio]
  IN /\ mounted
     /\ firstVideo \in First(videoInputs)
     /\ firstAudio \in First(audioInputs)
     /\ videoDevices' = videoInputs
     /\ audioDevices' = audioInputs
     /\ settings' = s
     /\ IF s # settings THEN RunStreamEffect(s)
        ELSE UNCHANGED <<effect, pending, live, nacq>>
     /\ <<videoDevices', audioDevices', s>> # <<videoDevices, audioDevices, settings>>
     /\ UNCHANGED <<stream, streamError, mounted, srcObject>>

\* getUserMedia resolves: setStream(newStream); setError(null), and in the
\* render that follows App's effect on [stream] hands the stream to the
\* video element.  The stream effect does not depend on stream and is not
\* run again.  Once the page is unmounted the setters do nothing
GetUserMediaResolves(a) ==
  /\ a \in pending
  /\ pending' = pending \ {a}
  /\ live' = live \cup {a}
  /\ stream' = (IF mounted THEN a ELSE stream)
  /\ streamError' = (IF mounted THEN FALSE ELSE streamError)
  /\ srcObject' = (IF mounted THEN a ELSE srcObject)
  /\ UNCHANGED <<videoDevices, audioDevices, settings, effect, nacq, mounted>>

\* getUserMedia rejects: setError(message); setStream(null).  App's effect
\* on [stream] assigns srcObject only for a stream, so the video element
\* keeps what it had
GetUserMediaRejects(a) ==
  /\ a \in pending
  /\ pending' = pending \ {a}
  /\ stream' = (IF mounted THEN 0 ELSE stream)
  /\ streamError' = (IF mounted THEN TRUE ELSE streamError)
  /\ UNCHANGED <<videoDevices, audioDevices, settings, effect, live, nacq,
                 mounted, srcObject>>

\* the page unmounts: the cleanup the stream effect last returned runs, the
\* devicechange listener is removed and the video element goes away
Unmount ==
  /\ mounted
  /\ mounted' = FALSE
  /\ live' = AfterCleanup(live)
  /\ effect' = NoCleanup
  /\ srcObject' = 0
  /\ UNCHANGED <<videoDevices, audioDevices, settings, stream, streamError,
                 pending, nacq>>

InitStream ==
  /\ videoDevices = {}
  /\ audioDevices = {}
  /\ settings = InitialSettings
  /\ stream = 0
  /\ streamError = FALSE
  /\ effect = NoCleanup
  /\ pending = {}
  /\ live = {}
  /\ nacq = 0
  /\ mounted = TRUE
  /\ srcObject = 0

\* ------------------------------------------------------- App: the recorder
\* a chunk of encoded data: the encoder that produced it, its position in
\* that encoder's output and its size
Chunk(e, n, size) == [rec |-> e, n |-> n, size |-> size]
ChunkSizes == {0, 1}

Recordings == 1..MaxRec

Settled(resp) == [kind |-> resp.kind, hasData |-> resp.hasData]

\* one photo and the pipeline of its canvas.toBlob callback
Shots == 1..MaxShots
NoShot == [pc |-> "none", timestamp |-> 0, slot |-> 0,
           saved |-> Settled(NoResponse)]

\* one MediaRecorder and the onstop pipeline of its recording
NoRecording ==
  [state |-> "none", stream |-> 0, convertToMp4 |-> FALSE, pc |-> "none",
   mimeType |-> "", blobType |-> "",
   blob |-> <<>>, timestamp |-> 0, slot |-> 0, saveResult |-> NoResponse,
   \* history, read by the properties only: the chunks the encoder emitted,
   \* how saveRecording settled, the convertToMp4 invocations made and how
   \* the last one settled
   emitted |-> <<>>, saved |-> Settled(NoResponse), convertCalls |-> 0,
   converted |-> Settled(NoResponse),
   \* the toast onstop showed last: "none", "info", "success" or "error"
   toast |-> "none"]

\* ------------------------------------------------------------ getBestCodec
CODEC_PREFERENCES ==
  <<"video/webm;codecs=vp9", "video/webm;codecs=vp8", "video/webm">>
Codecs == {CODEC_PREFERENCES[i] : i \in 1..Len(CODEC_PREFERENCES)}

\* MediaRecorder.isTypeSupported
isTypeSupported(codec) == codec \in supported

\* the for loop over CODEC_PREFERENCES from position i, and the fallback
\* after it
RECURSIVE getBestCodecFrom(_)
getBestCodecFrom(i) ==
  IF i > Len(CODEC_PREFERENCES) THEN "video/webm"
  ELSE IF isTypeSupported(CODEC_PREFERENCES[i]) THEN CODEC_PREFERENCES[i]
  ELSE getBestCodecFrom(i + 1)

getBestCodecPlainFirst ==
  IF isTypeSupported("video/webm") THEN "video/webm" ELSE getBestCodecFrom(1)
getBestCodec == getBestCodecFrom(1)

\* what startRecording shows when it ends: 'Recording started', the error
\* toast of its catch, or nothing when it returned for want of a stream
StartToastSwallowed(outcome) == IF outcome = "started" THEN "info" ELSE "none"
StartToast(outcome) ==
  IF outcome = "started" THEN "info"
  ELSE IF outcome = "throws" THEN "error" ELSE "none"

NoStart == [outcome |-> "none", toast |-> "none", ref |-> 0, mimeType |-> ""]
StartEnded(outcome, mimeType) ==
  [outcome |-> outcome, toast |-> StartToast(outcome),
   ref |-> mediaRecorderRef, mimeType |-> mimeType]

\* new Date().toISOString().replace(/[:.]/g, '-') at clock reading t
DigitOf(t) == <<"0", "1", "2", "3", "4", "5", "6", "7", "8", "9">>[t + 1]
Timestamp(t) == <<DigitOf(t), "Z">>
webmFilename(t) ==
  <<"r", "e", "c", "o", "r", "d", "i", "n", "g", "-">> \o Timestamp(t)
    \o <<".", "w", "e", "b", "m">>
mp4Filename(t) ==
  <<"r", "e", "c", "o", "r", "d", "i", "n", "g", "-">> \o Timestamp(t)
    \o <<".", "m", "p", "4">>

FreeSlots == {s \in Slots : reqs[s].kind = "idle"}
FreeSlot == CHOOSE s \in FreeSlots : \A s2 \in FreeSlots : s <= s2

\* the controls that call startRecording, stopRecording and takePhoto: the
\* buttons are rendered by mode and isRecording and carry no disabled
\* attribute, and the key handler tests the same state
StartOfferedUnlessConverting ==
  ~isRecording /\ recordingMode = "video" /\ ~isConverting
StartOfferedWhileRecording == recordingMode = "video"
StartOffered == ~isRecording /\ recordingMode = "video"
StopOffered == isRecording
PhotoOffered == recordingMode = "photo"

\* startRecording, from the Start button or the Space key, both offered
\* only in video mode while isRecording is false.  Without a stream it
\* returns at once: no toast, no state change.  Otherwise the chunk list is
\* emptied first; the MediaRecorder constructor or start() may throw, as
\* start() does on a stream whose tracks have all ended, and then only the
\* error toast follows.  The constructor throws on a mime type the runtime
\* does not support.  onstop keeps the mimeType and the convertToMp4 of
\* this call.
StartRecording(outcome) ==
  /\ StartOffered
  /\ (outcome = "returns") = (stream = 0)
  /\ IF outcome = "returns"
     THEN /\ withoutStream' = [withoutStream EXCEPT !.startRecording = "silent"]
          /\ lastStart' = StartEnded(outcome, "")
          /\ UNCHANGED <<chunksRef, recs, nrec, mediaRecorderRef, isRecording>>
     ELSE /\ chunksRef' = <<>>
          /\ lastStart' = StartEnded(outcome, getBestCodec)
          /\ UNCHANGED withoutStream
          /\ IF outcome = "throws"
             THEN UNCHANGED <<recs, nrec, mediaRecorderRef, isRecording>>
             ELSE /\ nrec < MaxRec
                  /\ stream \in live
                  /\ isTypeSupported(getBestCodec)
                  /\ nrec' = nrec + 1
                  /\ recs' = [recs EXCEPT ![nrec + 1] =
                       [NoRecording EXCEPT
                          !.state = "recording",
                          !.stream = stream,
                          !.mimeType = getBestCodec,
                          !.convertToMp4 = convertToMp4]]
                  /\ mediaRecorderRef' = nrec + 1
                  /\ isRecording' = TRUE
  /\ UNCHANGED <<isConverting, convertToMp4, clock, stopOnInactive,
                 recordingMode, shots>>
  /\ UNCHANGED <<ipcVars, strVars, mainVars, supported>>

\* stopRecording.  mediaRecorderRef is never cleared, so the encoder it
\* names may have stopped already; stop() on an inactive MediaRecorder
\* returns silently or throws InvalidStateError, depending on the runtime
StopRecording(throws) ==
  /\ StopOffered
  /\ mediaRecorderRef # 0 /\ isRecording
  /\ LET e == mediaRecorderRef
     IN IF recs[e].state = "recording"
        THEN /\ ~throws
             /\ recs' = [recs EXCEPT ![e].state = "stopping"]
             /\ isRecording' = FALSE
             /\ UNCHANGED stopOnInactive
        ELSE /\ stopOnInactive' = TRUE
             /\ isRecording' = (IF throws THEN isRecording ELSE FALSE)
             /\ UNCHANGED recs
  /\ UNCHANGED <<isConverting, convertToMp4, mediaRecorderRef, chunksRef, nrec,
                 clock, photoVars>>
  /\ UNCHANGED <<ipcVars, strVars, mainVars, uiVars>>

\* ondataavailable: a chunk with bytes is appended to the shared list
Push(chunks, c) == IF c.size > 0 THEN Append(chunks, c) ELSE chunks

\* a timeslice elapsed on a recording encoder
DataAvailable(e, size) ==
  /\ recs[e].state = "recording"
  /\ Len(recs[e].emitted) < MaxChunks
  /\ LET c == Chunk(e, Len(recs[e].emitted) + 1, size)
     IN /\ recs' = [recs EXCEPT ![e].emitted = Append(@, c)]
        /\ chunksRef' = Push(chunksRef, c)
  /\ UNCHANGED <<isRecording, isConverting, convertToMp4, mediaRecorderRef,
                 nrec, clock, stopOnInactive, photoVars>>
  /\ UNCHANGED <<ipcVars, strVars, mainVars, uiVars>>

\* the tracks of the stream end (the device is removed): every encoder
\* recording from it stops by itself; no handler of the page runs
TracksEnd(s) ==
  /\ s \in live
  /\ live' = live \ {s}
  /\ recs' = [e \in Recordings |->
       IF recs[e].state = "recording" /\ recs[e].stream = s
       THEN [recs[e] EXCEPT !.state = "stopping"] ELSE recs[e]]
  /\ UNCHANGED <<isRecording, isConverting, convertToMp4, mediaRecorderRef,
                 chunksRef, nrec, clock, stopOnInactive, photoVars>>
  /\ UNCHANGED <<videoDevices, audioDevices, settings, stream, streamError,
                 effect, pending, nacq, mounted, srcObject>>
  /\ UNCHANGED <<ipcVars, mainVars, uiVars>>

\* the task a stopped encoder queues: the last dataavailable, then onstop up
\* to its first await: new Blob(chunksRef.current, { type: mimeType })
EncoderStopped(e, size) ==
  /\ recs[e].state = "stopping"
  /\ LET c == Chunk(e, Len(recs[e].emitted) + 1, size)
     IN /\ chunksRef' = Push(chunksRef, c)
        /\ recs' = [recs EXCEPT ![e].state = "inactive",
                                ![e].emitted = Append(@, c),
                                ![e].blob = Push(chunksRef, c),
                                ![e].blobType = recs[e].mimeType,
                                ![e].pc = "buffer"]
  /\ UNCHANGED <<isRecording, isConverting, convertToMp4, mediaRecorderRef,
                 nrec, clock, stopOnInactive, photoVars>>
  /\ UNCHANGED <<ipcVars, strVars, mainVars, uiVars>>

\* onstop after blob.arrayBuffer(): the clock is read for the two filenames
\* and saveRecording is invoked
BlobBuffered(e, t) ==
  /\ recs[e].pc = "buffer"
  /\ FreeSlots # {}
  /\ t >= clock
  /\ clock' = t
  /\ recs' = [recs EXCEPT ![e].timestamp = t, ![e].slot = FreeSlot,
                          ![e].pc = "saving"]
  /\ reqs' = [reqs EXCEPT ![FreeSlot] =
       NewReq("save", SaveData(JSArrayBuffer, JSString(webmFilename(t))))]
  /\ UNCHANGED <<isRecording, isConverting, convertToMp4, mediaRecorderRef,
                 chunksRef, nrec, stopOnInactive, photoVars>>
  /\ UNCHANGED <<files, truncated, nreq>>
  /\ UNCHANGED <<strVars, mainVars, uiVars>>

\* saveResult.success && saveResult.data, with the mutant that drops the test
SaveSucceededAlways(saveResult) == TRUE
SaveSucceeded(saveResult) == saveResult.kind = "ok" /\ saveResult.hasData

\* the payload of onstop's convertToMp4 call: the saved path, the mp4 name
\* of the same timestamp, and keepWebm: true
UiConvertDataDeleting(path, t) ==
  ConvertData(JSString(PathString(path)), JSString(mp4Filename(t)), JSBool(FALSE))
UiConvertData(path, t) ==
  ConvertData(JSString(PathString(path)), JSString(mp4Filename(t)), JSBool(TRUE))

\* the toast after saveRecording settled: info when a conversion follows,
\* success when none does, error for a failure envelope and, from the
\* catch, for a rejection
SaveToast(saveResult, converts) ==
  IF saveResult.kind # "reject" /\ SaveSucceeded(saveResult)
  THEN IF converts THEN "info" ELSE "success"
  ELSE "error"

\* the toast after convertToMp4 settled: success for an envelope with
\* success and data, error for any other and, from the catch, for a
\* rejection
ConvertToast(convertResult) ==
  IF convertResult.kind = "ok" /\ convertResult.hasData THEN "success"
  ELSE "error"

\* onstop after saveRecording settled.  A rejection goes to the catch; a
\* success with convertToMp4 set invokes convertToMp4 on the saved path with
\* keepWebm true; everything else ends the pipeline with a toast
SaveReturned(e) ==
  LET r == recs[e].slot
      saveResult == reqs[r].resp
      converts == /\ saveResult.kind # "reject"
                  /\ SaveSucceeded(saveResult)
                  /\ recs[e].convertToMp4
  IN /\ recs[e].pc = "saving"
     /\ reqs[r].pc = "done"
     /\ IF converts
        THEN /\ isConverting' = TRUE
             /\ reqs' = [reqs EXCEPT ![r] =
                  NewReq("convert",
                         UiConvertData(saveResult.path, recs[e].timestamp))]
             /\ recs' = [recs EXCEPT ![e].saveResult = saveResult,
                                     ![e].saved = Settled(saveResult),
                                     ![e].pc = "converting",
                                     ![e].toast = SaveToast(saveResult, TRUE),
                                     ![e].convertCalls = @ + 1]
        ELSE /\ reqs' = [reqs EXCEPT ![r] = IdleReq]
             /\ recs' = [recs EXCEPT ![e].saved = Settled(saveResult),
                                     ![e].slot = 0,
                                     ![e].toast = SaveToast(saveResult, FALSE),
                                     ![e].pc = "done"]
             /\ UNCHANGED isConverting
     /\ UNCHANGED <<isRecording, convertToMp4, mediaRecorderRef, chunksRef,
                    nrec, clock, stopOnInactive, photoVars>>
     /\ UNCHANGED <<files, truncated, nreq>>
     /\ UNCHANGED <<strVars, mainVars, uiVars>>

\* onstop after convertToMp4 settled: setIsConverting(false) and a toast,
\* unless the invocation rejected and the catch took over
ConvertReturned(e) ==
  LET r == recs[e].slot
      convertResult == reqs[r].resp
  IN /\ recs[e].pc = "converting"
     /\ reqs[r].pc = "done"
     /\ reqs' = [reqs EXCEPT ![r] = IdleReq]
     /\ recs' = [recs EXCEPT ![e].saveResult = NoResponse,
                             ![e].converted = Settled(convertResult),
                             ![e].toast = ConvertToast(convertResult),
                             ![e].slot = 0,
                             ![e].pc = "done"]
     /\ isConverting' = (IF convertResult.kind = "reject" THEN isConverting
                         ELSE FALSE)
     /\ UNCHANGED <<isRecording, convertToMp4, mediaRecorderRef, chunksRef,
                    nrec, clock, stopOnInactive, photoVars>>
     /\ UNCHANGED <<files, truncated, nreq>>
     /\ UNCHANGED <<strVars, mainVars, uiVars>>

\* the Auto-convert checkbox, shown in video mode and disabled while
\* recording or converting
SetConvertToMp4(b) ==
  /\ recordingMode = "video"
  /\ ~isRecording /\ ~isConverting
  /\ b # convertToMp4
  /\ convertToMp4' = b
  /\ UNCHANGED <<isRecording, isConverting, mediaRecorderRef, chunksRef, recs,
                 nrec, clock, stopOnInactive, photoVars>>
  /\ UNCHANGED <<ipcVars, strVars, mainVars, uiVars>>

\* ---------------------------------------------------------- App: takePhoto
photoFilename(t) ==
  <<"p", "h", "o", "t", "o", "-">> \o Timestamp(t) \o <<".", "j", "p", "g">>

FreeShots == {n \in Shots : shots[n].pc = "none"}
FreeShot == CHOOSE n \in FreeShots : \A n2 \in FreeShots : n <= n2

\* takePhoto, from the Take Photo button or the P key, both offered only in
\* photo mode.  Without a stream it returns at once: no toast, no state
\* change.  Otherwise the frame is drawn and canvas.toBlob is called; with
\* no 2d context nothing follows, and a throw ends in the error toast
TakePhoto(outcome) ==
  /\ PhotoOffered
  /\ (outcome = "returns") = (stream = 0)
  /\ IF outcome = "returns"
     THEN /\ withoutStream' = [withoutStream EXCEPT !.takePhoto = "silent"]
          /\ UNCHANGED shots
     ELSE /\ UNCHANGED withoutStream
          /\ IF outcome = "fails" THEN UNCHANGED shots
             ELSE /\ FreeShots # {}
                  /\ shots' = [shots EXCEPT ![FreeShot].pc = "blob"]
  /\ UNCHANGED <<isRecording, isConverting, convertToMp4, mediaRecorderRef,
                 chunksRef, recs, nrec, clock, stopOnInactive, recordingMode>>
  /\ UNCHANGED <<ipcVars, strVars, mainVars, uiVars>>

\* the toBlob callback up to its await: nothing follows a null blob
PhotoEncoded(n, hasBlob) ==
  /\ shots[n].pc = "blob"
  /\ shots' = [shots EXCEPT ![n].pc = IF hasBlob THEN "buffer" ELSE "done"]
  /\ UNCHANGED <<isRecording, isConverting, convertToMp4, mediaRecorderRef,
                 chunksRef, recs, nrec, clock, stopOnInactive, recordingMode,
                 withoutStream>>
  /\ UNCHANGED <<ipcVars, strVars, mainVars, uiVars>>

\* the callback after blob.arrayBuffer(): the clock is read for the filename
\* and saveRecording is invoked
PhotoBuffered(n, t) ==
  /\ shots[n].pc = "buffer"
  /\ FreeSlots # {}
  /\ t >= clock
  /\ clock' = t
  /\ shots' = [shots EXCEPT ![n].timestamp = t, ![n].slot = FreeSlot,
                            ![n].pc = "saving"]
  /\ reqs' = [reqs EXCEPT ![FreeSlot] =
       NewReq("save", SaveData(JSArrayBuffer, JSString(photoFilename(t))))]
  /\ UNCHANGED <<isRecording, isConverting, convertToMp4, mediaRecorderRef,
                 chunksRef, recs, nrec, stopOnInactive, recordingMode,
                 withoutStream>>
  /\ UNCHANGED <<files, truncated, nreq>>
  /\ UNCHANGED <<strVars, mainVars, uiVars>>

\* the callback after saveRecording settled: a toast, or nothing at all
\* when the invocation rejected
PhotoSaveReturned(n) ==
  LET r == shots[n].slot
  IN /\ shots[n].pc = "saving"
     /\ reqs[r].pc = "done"
     /\ reqs' = [reqs EXCEPT ![r] = IdleReq]
     /\ shots' = [shots EXCEPT ![n].saved = Settled(reqs[r].resp),
                               ![n].slot = 0,
                               ![n].pc = "done"]
     /\ UNCHANGED <<isRecording, isConverting, convertToMp4, mediaRecorderRef,
                    chunksRef, recs, nrec, clock, stopOnInactive,
                    recordingMode, withoutStream>>
     /\ UNCHANGED <<files, truncated, nreq>>
     /\ UNCHANGED <<strVars, mainVars, uiVars>>

\* the Video and Photo buttons, disabled while recording
ModeButtonsNeverDisabled == FALSE
ModeButtonsDisabled == isRecording

SetRecordingMode(mode) ==
  /\ ~ModeButtonsDisabled
  /\ mode # recordingMode
  /\ recordingMode' = mode
  /\ UNCHANGED <<isRecording, isConverting, convertToMp4, mediaRecorderRef,
                 chunksRef, recs, nrec, clock, stopOnInactive, shots,
                 withoutStream>>
  /\ UNCHANGED <<ipcVars, strVars, mainVars, uiVars>>

InitRecorder ==
  /\ isRecording = FALSE
  /\ isConverting = FALSE
  /\ convertToMp4 = TRUE   \* nothing stored: the default
  /\ mediaRecorderRef = 0
  /\ chunksRef = <<>>
  /\ recs = [e \in Recordings |-> NoRecording]
  /\ nrec = 0
  /\ clock = 0
  /\ stopOnInactive = FALSE
  /\ recordingMode = "video"
  /\ shots = [n \in Shots |-> NoShot]
  /\ withoutStream = [startRecording |-> "never", takePhoto |-> "never"]
  /\ lastStart = NoStart

\* the runtime of the packaged application accepts every preference; the
\* page can be served by a runtime that accepts any of them or none
InitRuntime == supported = Codecs
InitAnyRuntime == supported \in SUBSET Codecs

\* the page once the first camera has been enumerated and getUserMedia
\* rejected: GetDevices({"cam1"}, {}) and GetUserMediaRejects(1)
InitDenied ==
  /\ videoDevices = {"cam1"}
  /\ audioDevices = {}
  /\ settings = [InitialSettings EXCEPT !.video = "cam1"]
  /\ stream = 0
  /\ streamError = TRUE
  /\ effect = [installed |-> TRUE, stream |-> 0]
  /\ pending = {}
  /\ live = {}
  /\ nacq = 1
  /\ mounted = TRUE
  /\ srcObject = 0

\* the page once the first camera has been enumerated and its stream
\* acquired: GetDevices({"cam1"}, {}) and GetUserMediaResolves(1)
InitAcquired ==
  /\ videoDevices = {"cam1"}
  /\ audioDevices = {}
  /\ settings = [InitialSettings EXCEPT !.video = "cam1"]
  /\ stream = 1
  /\ streamError = FALSE
  /\ effect = [installed |-> TRUE, stream |-> 0]
  /\ pending = {}
  /\ live = {1}
  /\ nacq = 1
  /\ mounted = TRUE
  /\ srcObject = 1

\* ----------------------------------------------------------------- SpecIpc
InitIpc == InitFiles /\ InitStream /\ InitRecorder /\ InitMain /\ InitRuntime

NextIpc ==
  \/ \E data \in SavePayloads : Invoke("save", data) /\ UNCHANGED <<strVars, recVars, mainVars, uiVars>>
  \/ \E data \in ConvertPayloads : Invoke("convert", data) /\ UNCHANGED <<strVars, recVars, mainVars, uiVars>>
  \/ Invoke("getdir", Primitive("undefined")) /\ UNCHANGED <<strVars, recVars, mainVars, uiVars>>
  \/ Invoke("open", Primitive("undefined")) /\ UNCHANGED <<strVars, recVars, mainVars, uiVars>>
  \/ \E r \in Slots : Handle(r) /\ UNCHANGED <<strVars, recVars, mainVars, uiVars>>
  \/ \E r \in Slots : Retire(r) /\ UNCHANGED <<strVars, recVars, mainVars, uiVars>>
  \/ WindowClosed /\ UNCHANGED <<ipcVars, strVars, recVars, uiVars>>

SpecIpc == InitIpc /\ [][NextIpc]_vars

\* -------------------------------------------------------------- SpecStream
\* the capture stream hook under any order of setting changes, hot-plug
\* events and getUserMedia completions
NextStream ==
  \/ \E v \in SUBSET Cameras, a \in SUBSET Microphones :
       \E fv \in First(v), fa \in First(a) :
         GetDevices(v, a, fv, fa) /\ UNCHANGED <<ipcVars, recVars, mainVars, uiVars>>
  \/ \E d \in Cameras : SelectVideoDevice(d) /\ UNCHANGED <<ipcVars, recVars, mainVars, uiVars>>
  \/ \E d \in Microphones : SelectAudioDevice(d) /\ UNCHANGED <<ipcVars, recVars, mainVars, uiVars>>
  \/ \E b \in BOOLEAN : SetWithAudio(b) /\ UNCHANGED <<ipcVars, recVars, mainVars, uiVars>>
  \/ \E res \in Resolutions : SetResolution(res) /\ UNCHANGED <<ipcVars, recVars, mainVars, uiVars>>
  \/ \E f \in FrameRates : SetFps(f) /\ UNCHANGED <<ipcVars, recVars, mainVars, uiVars>>
  \/ \E a \in 1..MaxAcq : GetUserMediaResolves(a) /\ UNCHANGED <<ipcVars, recVars, mainVars, uiVars>>
  \/ \E a \in 1..MaxAcq : GetUserMediaRejects(a) /\ UNCHANGED <<ipcVars, recVars, mainVars, uiVars>>
  \/ Unmount /\ UNCHANGED <<ipcVars, recVars, mainVars, uiVars>>

SpecStream == InitIpc /\ [][NextStream]_vars

\* ----------------------------------------------------------------- SpecRec
\* the recorder from the moment the first stream is live: start, stop, the
\* encoders' events and the end of the tracks, up to the blob onstop builds
InitRec ==
  /\ InitFiles /\ (InitAcquired \/ InitDenied) /\ InitRecorder
  /\ InitMain /\ InitRuntime

NextRec ==
  \/ \E outcome \in {"started", "throws", "returns"} : StartRecording(outcome)
  \/ \E mode \in {"video", "photo"} : SetRecordingMode(mode)
  \/ \E throws \in BOOLEAN : StopRecording(throws)
  \/ \E e \in Recordings, size \in ChunkSizes : DataAvailable(e, size)
  \/ \E s \in 1..MaxAcq : TracksEnd(s)
  \/ \E e \in Recordings, size \in ChunkSizes : EncoderStopped(e, size)
  \/ \E b \in BOOLEAN : SetConvertToMp4(b)

SpecRec == InitRec /\ [][NextRec]_vars

\* ---------------------------------------------------------------- SpecPipe
\* recordings that are started and stopped from the page, and the
\* save-then-convert pipeline of each over the IPC handlers
NextPipe ==
  \/ \E outcome \in {"started", "returns"} :
       nrec < MaxPipes /\ StartRecording(outcome)
  \/ StopRecording(FALSE)
  \/ \E e \in Recordings, size \in ChunkSizes : EncoderStopped(e, size)
  \/ \E e \in Recordings, t \in 0..MaxTime : BlobBuffered(e, t)
  \/ \E e \in Recordings : SaveReturned(e)
  \/ \E e \in Recordings : ConvertReturned(e)
  \/ \E b \in BOOLEAN : SetConvertToMp4(b)
  \/ \E r \in Slots : Handle(r) /\ UNCHANGED <<strVars, recVars, mainVars, uiVars>>

SpecPipe == InitRec /\ [][NextPipe]_vars

\* ------------------------------------------------------------- SpecOverlap
\* the same pipeline with as many recordings as the recorder makes, so that
\* a recording can be stopped while an earlier one is still being saved or
\* converted
NextOverlap ==
  \/ \E outcome \in {"started", "returns"} : StartRecording(outcome)
  \/ StopRecording(FALSE)
  \/ \E e \in Recordings, size \in ChunkSizes : EncoderStopped(e, size)
  \/ \E e \in Recordings, t \in 0..MaxTime : BlobBuffered(e, t)
  \/ \E e \in Recordings : SaveReturned(e)
  \/ \E e \in Recordings : ConvertReturned(e)
  \/ \E b \in BOOLEAN : SetConvertToMp4(b)
  \/ \E r \in Slots : Handle(r) /\ UNCHANGED <<strVars, recVars, mainVars, uiVars>>

SpecOverlap == InitRec /\ [][NextOverlap]_vars

\* --------------------------------------------------------------- SpecPhoto
\* photos taken from the page in photo mode, and the save of each over the
\* IPC handlers
NextPhoto ==
  \/ \E mode \in {"video", "photo"} : SetRecordingMode(mode)
  \/ \E outcome \in {"captured", "fails", "returns"} : TakePhoto(outcome)
  \/ \E n \in Shots, hasBlob \in BOOLEAN : PhotoEncoded(n, hasBlob)
  \/ \E n \in Shots, t \in 0..MaxShotTime : PhotoBuffered(n, t)
  \/ \E n \in Shots : PhotoSaveReturned(n)
  \/ \E r \in Slots : Handle(r) /\ UNCHANGED <<strVars, recVars, mainVars, uiVars>>

SpecPhoto == InitRec /\ [][NextPhoto]_vars

\* ------------------------------------------------------------------ SpecUi
\* the controls of the page in both modes, on any runtime: start and stop,
\* the mode buttons and the photo button, with the encoders' stop events;
\* the photos' own pipeline is left to SpecPhoto
InitUi ==
  /\ InitFiles /\ (InitAcquired \/ InitDenied) /\ InitRecorder
  /\ InitMain /\ InitAnyRuntime

NextUi ==
  \/ \E outcome \in {"started", "throws", "returns"} : StartRecording(outcome)
  \/ \E throws \in BOOLEAN : StopRecording(throws)
  \/ \E s \in 1..MaxAcq : TracksEnd(s)
  \/ \E e \in Recordings, size \in ChunkSizes : EncoderStopped(e, size)
  \/ \E mode \in {"video", "photo"} : SetRecordingMode(mode)
  \/ \E outcome \in {"captured", "fails", "returns"} : TakePhoto(outcome)

SpecUi == InitUi /\ [][NextUi]_vars

\* ------------------------------------------------- properties of SpecIpc
IsDone(q, kind) == q.kind = kind /\ q.pc = "done"
Untouched(q) == files = q.files0 /\ truncated = q.truncated0

\* C1: every path save-recording hands to fs.writeFile is
\* path.join(recordingsDir, sanitizeFilename(filename)) and is a direct
\* child of the managed directory, never the directory itself, its parent
\* or a place outside it.
C1_WritePathIsDirectChild ==
  \A r \in Slots :
    reqs[r].kind = "save" =>
      \A p \in reqs[r].wrote :
        /\ p = PathJoin(recordingsDir,
                        sanitizeFilename(reqs[r].data.filename.s))
        /\ IsDirectChild(p)

\* C2: a convert-to-mp4 request calls unlink on its source only after the
\* subprocess closed with code 0 and with a keepWebm that is not true; a
\* request that failed (validation, source not found, spawn error, non-zero
\* exit) has removed no file: every file present when it arrived is still
\* present.
C2_SourceDeletedOnlyOnSuccess ==
  \A r \in Slots :
    reqs[r].kind = "convert" =>
      /\ reqs[r].unlinked # {} =>
           /\ reqs[r].exited /\ reqs[r].code = 0
           /\ reqs[r].data.keepWebm # JSBool(TRUE)
           /\ reqs[r].unlinked = {SourceOf(reqs[r])}
      /\ reqs[r].deleted \subseteq reqs[r].unlinked
      /\ reqs[r].failed => reqs[r].files0 \subseteq files

C2_Witness ==
  \E r \in Slots :
    /\ IsDone(reqs[r], "convert")
    /\ reqs[r].exited /\ reqs[r].code = 1
    /\ reqs[r].data.keepWebm = JSBool(FALSE)
    /\ SourceOf(reqs[r]) \in files

\* C3 as stated: after exit code 0, with keepWebm false the source is gone
\* and the converted file exists when the response is there; with keepWebm
\* true the source still exists.
C3_SourceGoneAfterSuccess ==
  \A r \in Slots :
    (IsDone(reqs[r], "convert") /\ reqs[r].exited /\ reqs[r].code = 0) =>
      /\ Falsy(reqs[r].data.keepWebm) =>
           SourceOf(reqs[r]) \notin files /\ reqs[r].outputPath \in files
      /\ ~Falsy(reqs[r].data.keepWebm) => SourceOf(reqs[r]) \in files

\* C3 amended: after exit code 0 the response is success with the target
\* path.  With keepWebm true no unlink is called, and source and converted
\* file exist.  With keepWebm false unlink is called on the source before
\* the response: the source is gone exactly when that unlink succeeded, and
\* the converted file exists unless the source path is the target path.
C3_SourceUnlinkedAfterSuccess ==
  \A r \in Slots :
    (IsDone(reqs[r], "convert") /\ reqs[r].exited /\ reqs[r].code = 0) =>
      LET q == reqs[r]
          src == SourceOf(q)
      IN /\ q.resp = Success(q.outputPath)
         /\ ~Falsy(q.data.keepWebm) =>
              q.unlinked = {} /\ src \in files /\ q.outputPath \in files
         /\ Falsy(q.data.keepWebm) =>
              /\ q.unlinked = {src}
              /\ src \notin files <=> q.deleted = {src}
              /\ src # q.outputPath => q.outputPath \in files

C3_Witness ==
  \E r \in Slots :
    /\ IsDone(reqs[r], "convert")
    /\ reqs[r].exited /\ reqs[r].code = 0
    /\ reqs[r].data.keepWebm = JSBool(FALSE)
    /\ reqs[r].deleted = {SourceOf(reqs[r])}
    /\ SourceOf(reqs[r]) \notin files
    /\ reqs[r].outputPath \in files

\* C4: when statfs reports less free space than MIN_FREE_SPACE_MB,
\* save-recording answers with the insufficient-space envelope, never calls
\* fs.writeFile, and no file is created or modified.
C4_SpaceGuard ==
  \A r \in Slots :
    (reqs[r].kind = "save" /\ reqs[r].asked /\ FreeBelowMinimum(reqs[r].stats)) =>
      /\ reqs[r].pc = "done"
      /\ reqs[r].resp = InsufficientSpace
      /\ reqs[r].wrote = {}
      /\ Untouched(reqs[r])

C4_Witness ==
  \E r \in Slots :
    /\ IsDone(reqs[r], "save")
    /\ reqs[r].asked /\ FreeBelowMinimum(reqs[r].stats)
    /\ reqs[r].data.filename.s = <<"a">>

\* the malformed payloads, as the validators' contract lists them
MalformedSaveData(d) ==
  d.t # "object" \/ d.buffer.t # "ArrayBuffer" \/ d.filename.t # "string"
MalformedConvertData(d) ==
  \/ d.t # "object"
  \/ d.webmPath.t # "string" \/ d.mp4Filename.t # "string"
  \/ d.keepWebm.t \notin {"boolean", "undefined"}

\* C9: a save-recording or convert-to-mp4 request with a malformed payload
\* is answered with success = false, changes no file, calls neither
\* fs.writeFile nor fs.unlink and spawns no subprocess.
C9_MalformedRejected ==
  \A r \in Slots :
    LET q == reqs[r]
    IN (\/ q.kind = "save" /\ MalformedSaveData(q.data)
        \/ q.kind = "convert" /\ MalformedConvertData(q.data)) =>
         /\ q.pc \in {"start", "done"}
         /\ q.pc = "done" => q.resp.kind = "err"
         /\ q.wrote = {} /\ q.unlinked = {} /\ q.spawnCalls = 0
         /\ Untouched(q)

C9_Witness ==
  \E r \in Slots :
    /\ IsDone(reqs[r], "convert")
    /\ reqs[r].data.t = "object"
    /\ reqs[r].data.keepWebm.t = "string"
    /\ reqs[r].resp.kind = "err"

\* C10: every handler invocation settles with an envelope, and one in which
\* the handler met a failure settles with {success: false, error}; none
\* rejects with the raw exception.
C10_FailuresAreEnvelopes ==
  \A r \in Slots :
    reqs[r].pc = "done" =>
      /\ reqs[r].resp.kind \in {"ok", "err"}
      /\ reqs[r].failed => reqs[r].resp.kind = "err"

\* C8: once no getUserMedia call is pending, every acquired stream whose
\* tracks are still live is the current stream: at most one stream is live,
\* and every stream that was replaced has been stopped.
C8_OneLiveStream ==
  pending = {} => \A a \in live : a = stream

NonEmpty(c) == c.size > 0

\* C5: a conversion is requested for a recording only after that
\* recording's save returned success with data, and at most once; a save
\* that failed or rejected ends the pipeline without a conversion request.
C5_ConvertOnlyAfterSave ==
  \A e \in Recordings :
    /\ recs[e].convertCalls > 0 =>
         /\ recs[e].saved.kind = "ok" /\ recs[e].saved.hasData
         /\ recs[e].convertToMp4
         /\ recs[e].convertCalls = 1
    /\ recs[e].saved.kind \in {"err", "reject"} =>
         recs[e].convertCalls = 0 /\ recs[e].pc = "done"

\* a recording asked for conversion, its save failed, and its pipeline has
\* ended
C5_Witness ==
  \E e \in Recordings :
    /\ recs[e].convertToMp4
    /\ recs[e].saved.kind = "err"
    /\ recs[e].pc = "done"

\* C6: the blob assembled when an encoder stops holds exactly the chunks
\* with bytes that this encoder emitted, in the order it emitted them.
C6_BlobIsOwnChunks ==
  \A e \in Recordings :
    recs[e].pc # "none" => recs[e].blob = SelectSeq(recs[e].emitted, NonEmpty)

\* C7: stopRecording never calls stop() on an encoder that is not
\* recording: with no recording active it does nothing.
C7_StopIsNoOpWhenIdle == ~stopOnInactive

\* C11: no error text an IPC handler returns holds a path fragment or a
\* host error code: every token of it is generic text.
C11_ErrorsAreGeneric ==
  \A r \in Slots :
    (reqs[r].pc = "done" /\ reqs[r].resp.kind = "err") =>
      \A i \in 1..Len(reqs[r].resp.error) : reqs[r].resp.error[i].k = "text"

SourceAbsent(q) == SourceOf(q) \notin q.files0 /\ ~IsDirectory(SourceOf(q))

\* C12: a well-formed convert-to-mp4 request whose source does not exist,
\* or exists and cannot be read, is answered with a failure envelope and
\* spawn is never called for it.
C12_NoSpawnWithoutSource ==
  \A r \in Slots :
    LET q == reqs[r]
    IN (/\ IsDone(q, "convert")
        /\ validateConvertToMp4Data(q.data) = "true"
        /\ SourceAbsent(q) \/ ~Readable(SourceOf(q))) =>
         q.resp.kind = "err" /\ q.spawnCalls = 0

CarriesStderr(resp) ==
  \E i \in 1..Len(resp.error) : resp.error[i].k = "stderr"

\* C13: when ffmpeg exits with a code other than 0 after writing to its
\* stderr, the response is a failure whose error text carries what stderr
\* accumulated.
C13_FailureCarriesStderr ==
  \A r \in Slots :
    LET q == reqs[r]
    IN (IsDone(q, "convert") /\ q.exited /\ q.code # 0 /\ q.errorOutput > 0) =>
         q.resp.kind = "err" /\ CarriesStderr(q.resp)

\* C14: when ffmpeg exits with code 0 and keepWebm is falsy, the source is
\* unlinked and the response is success with the converted file's path,
\* whether or not the unlink removed anything.
C14_UnlinkFailureKeepsSuccess ==
  \A r \in Slots :
    LET q == reqs[r]
    IN (IsDone(q, "convert") /\ q.exited /\ q.code = 0 /\ Falsy(q.data.keepWebm)) =>
         q.unlinked = {SourceOf(q)} /\ q.resp = Success(q.outputPath)

\* ffmpeg exited 0, the source was to be deleted and the unlink failed
C14_Witness ==
  \E r \in Slots :
    LET q == reqs[r]
    IN /\ IsDone(q, "convert") /\ q.exited /\ q.code = 0
       /\ Falsy(q.data.keepWebm)
       /\ q.unlinked # {} /\ q.deleted = {}
       /\ q.resp.kind = "ok"

\* C18: when fs.writeFile fails part way in save-recording, the handler
\* tries to unlink the target path before it returns the error: a truncated
\* file this request left at its target is one the handler tried to remove.
C18_PartialFileRemoved ==
  \A r \in Slots :
    LET q == reqs[r]
    IN (/\ IsDone(q, "save") /\ q.resp.kind = "err"
        /\ q.outputPath \in q.wrote
        /\ q.outputPath \in truncated \ q.truncated0) =>
         q.outputPath \in q.unlinked

\* C15: a devicechange event, the only step that replaces the device lists,
\* leaves a live current stream alone: its tracks are not stopped and no
\* getUserMedia call is made.
C15_HotPlugKeepsStream ==
  [][((videoDevices' # videoDevices \/ audioDevices' # audioDevices)
       /\ stream # 0 /\ stream \in live)
     => (stream \in live' /\ nacq' = nacq)]_vars

\* C16: startRecording called with no stream surfaces an error, makes no
\* encoder and leaves isRecording false.
C16_StartWithoutStreamSurfaces ==
  [][withoutStream'.startRecording # withoutStream.startRecording
     => /\ withoutStream'.startRecording = "surfaced"
        /\ nrec' = nrec /\ ~isRecording']_vars

\* C17: takePhoto called with no stream returns or raises an error and
\* issues no save request.
C17_PhotoWithoutStreamFails ==
  [][withoutStream'.takePhoto # withoutStream.takePhoto
     => /\ withoutStream'.takePhoto = "surfaced"
        /\ reqs' = reqs /\ files' = files]_vars

WebmOf(e) == PathJoin(recordingsDir, webmFilename(recs[e].timestamp))
Mp4Of(e) == PathJoin(recordingsDir, mp4Filename(recs[e].timestamp))

C20_OneConversionAtATime ==
  Cardinality({r \in Slots : reqs[r].kind = "convert" /\ reqs[r].pc = "running"}) <= 1

Running(q) == q.kind = "convert" /\ q.pc = "running"

\* C21: when the window closes while an ffmpeg subprocess is running, the
\* main process sends that subprocess a signal.
C21_CloseSignalsConversion ==
  [][(mainWindow = "open" /\ mainWindow' = "closed")
     => \A r \in Slots : Running(reqs[r]) => r \in signalled']_vars

\* C22: after a conversion that failed (non-zero exit, crash or spawn
\* error), the target path holds no file that this conversion created or
\* left incomplete.
C22_NoPartialOutputAfterFailure ==
  \A r \in Slots :
    LET q == reqs[r]
    IN (IsDone(q, "convert") /\ q.failed /\ q.spawnCalls > 0) =>
         /\ q.outputPath \notin files \ q.files0
         /\ q.outputPath \notin truncated \ q.truncated0

\* C28: a well-formed save-recording request whose sanitized filename is
\* empty never reaches fs.writeFile, and is answered with a failure or
\* written under a generated, non-empty name.
C28_EmptyNameRejected ==
  \A r \in Slots :
    LET q == reqs[r]
    IN (/\ q.kind = "save"
        /\ validateSaveRecordingData(q.data) = "true"
        /\ sanitizeFilename(q.data.filename.s) = <<>>) =>
         \A p \in q.wrote : p # PathJoin(recordingsDir, <<>>)

\* C23: when the page unmounts, the tracks of the current stream are
\* stopped, also when that stream was acquired after the effect that
\* requested it had been set up.
C23_UnmountStopsStream ==
  [][(mounted /\ ~mounted') => (stream # 0 => stream \notin live')]_vars

\* a getUserMedia call was rejected in this step
AcquisitionFailed ==
  pending' \subseteq pending /\ pending' # pending /\ live' = live

\* C24: when an acquisition fails the error is set and the stream is null,
\* and the stream that was current before, like the one the video element
\* shows, has no live tracks.
C24_FailureLeavesSessionEmpty ==
  [][(mounted /\ AcquisitionFailed)
     => /\ streamError' /\ stream' = 0
        /\ stream # 0 => stream \notin live'
        /\ srcObject' # 0 => srcObject' \notin live']_vars

\* the first entry of the preference list that the runtime supports
FirstSupported(mimeType) ==
  \E i \in 1..Len(CODEC_PREFERENCES) :
    /\ CODEC_PREFERENCES[i] = mimeType
    /\ mimeType \in supported
    /\ \A j \in 1..(i - 1) : CODEC_PREFERENCES[j] \notin supported

PreferredCodec(mimeType) ==
  IF supported \cap Codecs = {} THEN mimeType = "video/webm"
  ELSE FirstSupported(mimeType)

\* C25: the codec startRecording chooses is the first supported entry of
\* the preference list, or 'video/webm' when none is supported, and the blob
\* built when a recording stops is tagged with the codec chosen when it
\* started.
C25_CodecChosenAndKept ==
  /\ lastStart.outcome \in {"started", "throws"} =>
       PreferredCodec(lastStart.mimeType)
  /\ \A e \in Recordings :
       /\ recs[e].state # "none" => PreferredCodec(recs[e].mimeType)
       /\ recs[e].pc # "none" => recs[e].blobType = recs[e].mimeType

\* a blob tagged vp8 on a runtime without vp9 that also supports plain webm
C25_Witness ==
  \E e \in Recordings :
    /\ recs[e].pc = "buffer"
    /\ recs[e].blobType = "video/webm;codecs=vp8"
    /\ "video/webm" \in supported

\* C26: after a startRecording call in which the MediaRecorder constructor
\* or start() threw, the error toast was shown, isRecording is false and
\* mediaRecorderRef is what it was before the call, never the encoder that
\* failed.
C26_FailedStartStaysIdle ==
  lastStart.outcome = "throws" =>
    /\ lastStart.toast = "error"
    /\ ~isRecording
    /\ mediaRecorderRef = lastStart.ref
    /\ mediaRecorderRef # 0 => recs[mediaRecorderRef].state # "none"

\* a start that threw after an earlier recording had been made and stopped
C26_Witness ==
  /\ lastStart.outcome = "throws"
  /\ mediaRecorderRef # 0
  /\ recs[mediaRecorderRef].state = "inactive"

\* C29: photo mode and isRecording never hold together, and a takePhoto
\* call or a step of its pipeline changes neither isRecording, the encoder
\* reference nor the chunk list.
C29_NoPhotoWhileRecording ==
  /\ [](~(recordingMode = "photo" /\ isRecording))
  /\ [][(shots' # shots \/ withoutStream'.takePhoto # withoutStream.takePhoto)
        => UNCHANGED <<isRecording, mediaRecorderRef, chunksRef>>]_vars

\* a recording in progress after a photo was taken, its encoding pending
C29_Witness ==
  /\ isRecording /\ recordingMode = "video"
  /\ \E n \in Shots : shots[n].pc = "blob"

SaveIssued(e) == recs[e].pc \in {"saving", "converting", "done"}
InBlob(c, e) == \E i \in 1..Len(recs[e].blob) : recs[e].blob[i] = c

\* C27: once the save request of a stopped encoder has been issued, every
\* chunk with bytes that encoder emitted is in the blob of that request and
\* in the blob of no other recording.
C27_ChunksSavedOnce ==
  \A e \in Recordings :
    SaveIssued(e) =>
      \A i \in 1..Len(recs[e].emitted) :
        LET c == recs[e].emitted[i]
        IN NonEmpty(c) =>
             /\ InBlob(c, e)
             /\ \A e2 \in Recordings \ {e} : ~InBlob(c, e2)

PhotoSaveIssued(n) ==
  shots[n].pc = "saving" \/ (shots[n].pc = "done" /\ shots[n].saved.kind # "none")

\* C30: any two save requests the page generates carry different
\* filenames, so none overwrites the file of an earlier one.
C30_GeneratedNamesDistinct ==
  \A n, k \in Shots :
    (n # k /\ PhotoSaveIssued(n) /\ PhotoSaveIssued(k)) =>
      photoFilename(shots[n].timestamp) # photoFilename(shots[k].timestamp)

\* C32: when the free-space query itself fails (statfs throws),
\* hasEnoughDiskSpace answers true and save-recording goes on to
\* fs.writeFile with its output path: the request is never answered with the
\* insufficient-space envelope.
C32_SpaceGuardFailsOpen ==
  \A r \in Slots :
    (reqs[r].kind = "save" /\ reqs[r].asked /\ reqs[r].stats.threw) =>
      /\ hasEnoughDiskSpace(reqs[r].stats)
      /\ reqs[r].pc \in {"write", "done"}
      /\ reqs[r].wrote = {reqs[r].outputPath}
      /\ reqs[r].resp # InsufficientSpace

C32_Witness ==
  \E r \in Slots :
    /\ IsDone(reqs[r], "save")
    /\ reqs[r].asked /\ reqs[r].stats.threw
    /\ reqs[r].resp = Success(reqs[r].outputPath)
    /\ reqs[r].outputPath \in files

\* the files a request has created, overwritten, truncated or removed so far
Changed(q) ==
  ((files \ q.files0) \cup (q.files0 \ files))
    \cup ((truncated \ q.truncated0) \cup (q.truncated0 \ truncated))

\* C37: the only files a convert-to-mp4 request creates, overwrites or
\* deletes lie inside the managed directory: the output path is
\* path.join(recordingsDir, sanitizeFilename(mp4Filename)), and every path
\* handed to fs.unlink and every file the request changed is a direct child
\* of the managed directory, whatever webmPath the renderer sent.
C37_ConvertStaysInManagedDir ==
  \A r \in Slots :
    reqs[r].kind = "convert" =>
      /\ reqs[r].pc \notin {"start", "done"} =>
           reqs[r].outputPath =
             PathJoin(recordingsDir, sanitizeFilename(reqs[r].data.mp4Filename.s))
      /\ \A p \in reqs[r].unlinked \cup Changed(reqs[r]) : IsDirectChild(p)

\* C39: a convert-to-mp4 request whose subprocess emitted 'error' is answered
\* by that event's envelope; the 'close' that follows does not change the
\* response, calls no unlink and leaves every file as it was; and a response
\* once given is never replaced while the request lasts.
C39_FirstEventDecides ==
  /\ [](\A r \in Slots :
          (reqs[r].kind = "convert" /\ reqs[r].pc = "errclose") =>
            reqs[r].resp = createErrorResponse(ErrSpawnENOENT))
  /\ [](\A r \in Slots :
          (IsDone(reqs[r], "convert") /\ reqs[r].exited /\ reqs[r].code < 0) =>
            /\ reqs[r].resp = createErrorResponse(ErrSpawnENOENT)
            /\ reqs[r].unlinked = {} /\ reqs[r].deleted = {}
            /\ Untouched(reqs[r]))
  /\ [][\A r \in Slots :
          (reqs[r].resp.kind # "none" /\ reqs'[r].kind # "idle") =>
            reqs'[r].resp = reqs[r].resp]_vars

C39_Witness ==
  \E r \in Slots :
    /\ IsDone(reqs[r], "convert")
    /\ reqs[r].exited /\ reqs[r].code = -2
    /\ Falsy(reqs[r].data.keepWebm)
    /\ SourceOf(reqs[r]) = OldRecording /\ OldRecording \in files
    /\ reqs[r].resp = createErrorResponse(ErrSpawnENOENT)

\* C40 as stated: a request without keepWebm passes validation and, on exit
\* code 0, its source file is deleted when the response is there.
C40_OmittedFlagDeletesSource ==
  \A r \in Slots :
    (reqs[r].kind = "convert" /\ reqs[r].data.t = "object"
       /\ reqs[r].data.keepWebm = JSUndefined
       /\ TypeOf(reqs[r].data.webmPath) = "string"
       /\ TypeOf(reqs[r].data.mp4Filename) = "string") =>
      /\ validateConvertToMp4Data(reqs[r].data) = "true"
      /\ (reqs[r].pc = "done" /\ reqs[r].exited /\ reqs[r].code = 0) =>
           SourceOf(reqs[r]) \notin files

\* C40 amended: a request without keepWebm passes validation and is treated
\* as keepWebm = false: on exit code 0 fs.unlink is called on the source
\* before the response, and the source is gone exactly when that unlink
\* succeeded.
C40_OmittedFlagUnlinksSource ==
  \A r \in Slots :
    (reqs[r].kind = "convert" /\ reqs[r].data.t = "object"
       /\ reqs[r].data.keepWebm = JSUndefined
       /\ TypeOf(reqs[r].data.webmPath) = "string"
       /\ TypeOf(reqs[r].data.mp4Filename) = "string") =>
      /\ validateConvertToMp4Data(reqs[r].data) = "true"
      /\ DeletesSource(0, reqs[r].data)
      /\ (reqs[r].pc = "done" /\ reqs[r].exited /\ reqs[r].code = 0) =>
           /\ reqs[r].unlinked = {SourceOf(reqs[r])}
           /\ SourceOf(reqs[r]) \notin files
                <=> reqs[r].deleted = {SourceOf(reqs[r])}

C40_Witness ==
  \E r \in Slots :
    /\ IsDone(reqs[r], "convert")
    /\ reqs[r].data.keepWebm = JSUndefined
    /\ reqs[r].exited /\ reqs[r].code = 0
    /\ reqs[r].deleted = {OldRecording}
    /\ OldRecording \notin files

\* C33: isRecording is true exactly when the encoder mediaRecorderRef names
\* is recording: when the encoder stops by itself the state returns to
\* idle.
C33_FlagTracksEncoder ==
  isRecording <=>
    (mediaRecorderRef # 0 /\ recs[mediaRecorderRef].state = "recording")

\* the chunks of a list that encoder e produced
OwnChunks(chunks, e) == SelectSeq(chunks, LAMBDA c : c.rec = e)

\* C35: chunks of one recording never reach another recording: the blob of
\* a stopped encoder holds no chunk of another encoder and every chunk with
\* bytes of its own, and while an encoder is recording the shared buffer
\* holds no chunk of an earlier encoder.
C35_RecordingsKeepTheirChunks ==
  /\ \A e \in Recordings :
       recs[e].pc # "none" =>
         /\ OwnChunks(recs[e].blob, e) = recs[e].blob
         /\ Len(recs[e].blob) = Len(SelectSeq(recs[e].emitted, NonEmpty))
  /\ \A e \in Recordings :
       recs[e].state = "recording" => OwnChunks(chunksRef, e) = chunksRef

\* C38: once every pending acquisition has settled, the stream state holds
\* the stream of the most recent getUserMedia call or, when that call
\* failed, no stream: a call made for older settings that settles later
\* neither replaces nor clears the stream of the newest call.
C38_NewestAcquisitionWins ==
  (mounted /\ pending = {} /\ nacq > 0) =>
    /\ stream \in {0, nacq}
    /\ nacq \in live => stream = nacq

\* a convertToMp4 invocation of recording e has not settled, or has settled
\* and onstop has not resumed after it
Converting(e) == recs[e].pc = "converting"

\* C36: isConverting is true while a conversion is unresolved, and false
\* once every conversion has resolved and its onstop has resumed, however
\* it resolved: with success, with an error envelope or with a rejection.
C36_FlagTracksConversions ==
  isConverting <=> \E e \in Recordings : Converting(e)

\* ---------------------------------------------------------------- SpecBusy
\* the page used while a conversion runs: the first recording goes through
\* save and conversion over the IPC handlers, and while its conversion is in
\* flight the user starts another recording, changes the mode and takes
\* photos; the later recording is left running
InitBusy == InitFiles /\ InitAcquired /\ InitRecorder /\ InitMain /\ InitRuntime

NextBusy ==
  \/ /\ nrec = 0 \/ \E e \in Recordings : Converting(e)
     /\ StartRecording("started")
  \/ nrec = 1 /\ StopRecording(FALSE)
  \/ \E e \in Recordings, size \in ChunkSizes : EncoderStopped(e, size)
  \/ \E e \in Recordings, t \in 0..MaxTime : BlobBuffered(e, t)
  \/ \E e \in Recordings : SaveReturned(e)
  \/ \E e \in Recordings : ConvertReturned(e)
  \/ /\ \E e \in Recordings : Converting(e)
     /\ \E mode \in {"video", "photo"} : SetRecordingMode(mode)
  \/ /\ \E e \in Recordings : Converting(e)
     /\ \E outcome \in {"started", "fails"} : TakePhoto(outcome)
  \/ \E r \in Slots : Handle(r) /\ UNCHANGED <<strVars, recVars, mainVars, uiVars>>

SpecBusy == InitBusy /\ [][NextBusy]_vars

\* the convertToMp4 invocation of recording e settled without success
ConversionFailed(e) ==
  /\ recs[e].pc = "done" /\ recs[e].convertCalls > 0
  /\ ~(recs[e].converted.kind = "ok" /\ recs[e].converted.hasData)

\* this step is taken by the convert-to-mp4 handler of request r
ConvertStep(r) ==
  /\ reqs[r].kind = "convert" /\ reqs'[r].kind = "convert"
  /\ reqs'[r] # reqs[r]

\* C31: while a conversion is in flight startRecording, stopRecording and
\* takePhoto can run whenever their control is shown for the mode and the
\* recording state; no step of a conversion started by the page creates,
\* removes or truncates its source file; and a conversion that failed has
\* ended in the error toast.
C31_UsableWhileConverting ==
  /\ []((\E e \in Recordings : Converting(e)) =>
          /\ (~isRecording /\ recordingMode = "video" /\ stream \in live
                /\ nrec < MaxRec) => ENABLED StartRecording("started")
          /\ (isRecording /\ recs[mediaRecorderRef].state = "recording") =>
               ENABLED StopRecording(FALSE)
          /\ (recordingMode = "photo" /\ stream # 0) =>
               ENABLED TakePhoto("fails"))
  /\ [][\A r \in Slots :
          ConvertStep(r) =>
            /\ SourceOf(reqs[r]) \in files <=> SourceOf(reqs[r]) \in files'
            /\ SourceOf(reqs[r]) \in truncated
                 <=> SourceOf(reqs[r]) \in truncated']_vars
  /\ [](\A e \in Recordings : ConversionFailed(e) => recs[e].toast = "error")

\* a conversion has failed with its raw file in place, after a second
\* recording was started and a photo taken while it was in flight
C31_Witness ==
  /\ ConversionFailed(1)
  /\ recs[1].converted.kind = "err"
  /\ recs[1].toast = "error"
  /\ WebmOf(1) \in files /\ WebmOf(1) \notin truncated
  /\ recs[2].state # "none"
  /\ \E n \in Shots : shots[n].pc # "none"

\* the encoders that are recording
Active == {e \in Recordings : recs[e].state = "recording"}

====
